---- MODULE Spec2Model ----
(***************************************************************************)
(* LemCom-API: API-key authentication and the friend-request protocol.     *)
(*                                                                         *)
(* Every inbound request is a task.  A task suspends at every storage call *)
(* (find_one / update_one), so each action below is the code between two   *)
(* consecutive awaits of one task: the storage call that ends the wait and *)
(* the local code that follows it up to the next storage call.             *)
(*                                                                         *)
(* Option<T> is a sequence of length at most one: <<>> is None, <<x>> is   *)
(* Some(x).  Strings the code inspects (API keys, names) are sequences of  *)
(* byte codes; message bodies, which the code only returns, are strings.   *)
(***************************************************************************)
EXTENDS Integers, Sequences, FiniteSets, TLC

VARIABLES
    user_collection,        \* db.user_collection: key -> stored User document
    friendship_collection,  \* db.friendship_collection: sequence of Friendship documents
    clock,                  \* the wall clock, in microseconds
    task,                   \* task slot -> the request it runs (locals and position)
    started,                \* number of requests received so far
    call                    \* the call of a function that touches no storage: its
                            \* arguments and, once it has returned, its result

vars == <<user_collection, friendship_collection, clock, task, started, call>>

-----------------------------------------------------------------------------
(* Bounds *)

MaxTasks == 2       \* requests in flight at once
MaxRequests == 3    \* requests received in one behaviour
MaxClock == 2       \* last clock reading (microseconds)
MaxUsers == 3       \* documents of the collection a listing is taken from

Tasks == 1 .. MaxTasks

-----------------------------------------------------------------------------
(* Users of the deployment.  Keys and names are byte strings. *)

KeyA == <<107, 49>>         \* "k1"
KeyB == <<107, 50>>         \* "k2"
Keys == {KeyA, KeyB}

UnknownKey == <<107, 57>>   \* "k9": well-formed, matches no user
MalformedKey == <<107, 233>> \* a header value with a byte outside visible ASCII

NameA == <<97>>             \* "a"
NameB == <<98>>             \* "b"
NameOf(k) == IF k = KeyA THEN NameA ELSE NameB

\* Values of the x-api-key header: absent, or some bytes.
Headers == {<<>>} \cup {<<k>> : k \in Keys \cup {UnknownKey, MalformedKey}}

\* Values of the `name` query parameter: "a", "B!", "z".
QueryNames == {<<97>>, <<66, 33>>, <<122>>}

CreatedMicros == 1
NanosPerMicro == 1000

\* utils::time_operations
timestamp_now_micro(c) == c
timestamp_now_nanos(c) == c * NanosPerMicro

\* The clock readings a call may see: time does not go back.
Readings == {c \in {clock, clock + 1} : c <= MaxClock}

-----------------------------------------------------------------------------
(* Responses *)

Response(status, body) == [status |-> status, body |-> body]

\* to_str that accepts every byte.
to_str_ok_AnyByte(bytes) == TRUE

\* HeaderValue::to_str: every byte is a visible ASCII character or a tab.
to_str_ok(bytes) == \A i \in 1 .. Len(bytes) :
                        (bytes[i] >= 32 /\ bytes[i] < 127) \/ bytes[i] = 9

\* str::to_lowercase on ASCII text.
to_lowercase(s) == [i \in 1 .. Len(s) |->
                        IF s[i] >= 65 /\ s[i] <= 90 THEN s[i] + 32 ELSE s[i]]

-----------------------------------------------------------------------------
(* utils::sanitize *)

\* char::is_ascii_alphanumeric, on the code point of the character.
is_ascii_alphanumeric(c) ==
    \/ c >= 48 /\ c <= 57
    \/ c >= 65 /\ c <= 90
    \/ c >= 97 /\ c <= 122

\* char::is_alphanumeric on the characters of Chars: letters and digits of
\* any script.
is_alphanumeric(c) == is_ascii_alphanumeric(c) \/ c \in {233, 1635}

\* alphanumeric that keeps the letters and digits of any script.
alphanumeric_AnyScript(input) == SelectSeq(input, is_alphanumeric)

\* alphanumeric: input.chars().filter(|c| c.is_ascii_alphanumeric()).collect()
alphanumeric(input) == SelectSeq(input, is_ascii_alphanumeric)

-----------------------------------------------------------------------------
(* query_models: what the Query extractor deserialises *)

\* PaginationQuery::sanitize: page is raised to 1, page_size is brought into
\* [1, 100]; a parameter that is absent stays absent.
sanitize(query) ==
    [page |-> IF query.page = <<>> THEN <<>>
              ELSE IF query.page[1] < 1 THEN <<1>> ELSE query.page,
     page_size |-> IF query.page_size = <<>> THEN <<>>
                   ELSE IF query.page_size[1] < 1 THEN <<1>>
                   ELSE IF query.page_size[1] > 100 THEN <<100>>
                   ELSE query.page_size]

unwrap_or(option, default) == IF option = <<>> THEN default ELSE option[1]

\* UserName::sanitize: the name keeps its ASCII letters and digits.
UserName_sanitize(query) == [name |-> alphanumeric(query.name)]

\* A query string without parameters.
NoQuery == [name |-> <<>>, page |-> <<>>, page_size |-> <<>>,
            show_join_date |-> <<>>, show_online |-> <<>>,
            allow_friend_requests |-> <<>>]

\* Query strings with a `name`: none, "a", "B!", "z".
NameQueries == {NoQuery} \cup {[NoQuery EXCEPT !.name = <<n>>] : n \in QueryNames}

\* Query strings with `page` and `page_size`: none, ?page=0&page_size=9999,
\* and ?page=-1, which is no u32.
PaginationQueries == {NoQuery,
                      [NoQuery EXCEPT !.page = <<0>>, !.page_size = <<9999>>],
                      [NoQuery EXCEPT !.page = <<-1>>]}

\* Query strings with settings: two sparse edits, and ?show_online=maybe,
\* which is no bool.
EditQueries == {[NoQuery EXCEPT !.allow_friend_requests = <<"false">>],
                [NoQuery EXCEPT !.show_join_date = <<"false">>],
                [NoQuery EXCEPT !.show_online = <<"maybe">>]}

\* Deserialising Option<u32>: a number that is no u32 is an error.
u32_ok(raw) == raw = <<>> \/ raw[1] >= 0

\* Deserialising Option<bool>: "true" and "false" only.
bool_ok(raw) == raw = <<>> \/ raw[1] \in {"true", "false"}
bool_from(raw) == IF raw = <<>> THEN <<>> ELSE <<raw[1] = "true">>

-----------------------------------------------------------------------------
(* models::user *)

DefaultSettings == [join_date_public |-> TRUE,
                    online_date_public |-> TRUE,
                    allow_friend_requests |-> TRUE]

\* A map with one entry added or replaced (HashMap::insert).
MapInsert(m, k, v) == [x \in DOMAIN m \cup {k} |-> IF x = k THEN v ELSE m[x]]

\* A map with one entry removed (HashMap::remove).
MapRemove(m, k) == [x \in DOMAIN m \ {k} |-> m[x]]

EmptyMap == [x \in {} |-> 0]

\* User::use_endpoint: the access stamp is set from the nanosecond clock and
\* the counter of "METHOD path" is created at 0 if absent, then incremented.
use_endpoint(u, method, path, now) ==
    LET endpoint == method \o " " \o path
        count == IF endpoint \in DOMAIN u.endpoint_usage
                 THEN u.endpoint_usage[endpoint] ELSE 0
    IN  [u EXCEPT !.last_access_stamp = timestamp_now_nanos(now),
                  !.endpoint_usage = MapInsert(@, endpoint, count + 1)]

\* User::save: update_one({key}, {$set: the whole document}, upsert): the
\* document of that key is replaced, or inserted if there is none.
UserSave(coll, u) ==
    [k \in DOMAIN coll \cup {u.key} |-> IF k = u.key THEN u ELSE coll[k]]

find_user_by_key(coll, key) ==
    IF key \in DOMAIN coll THEN <<coll[key]>> ELSE <<>>

find_user_by_name(coll, name) ==
    LET hits == {k \in DOMAIN coll : coll[k].name = to_lowercase(name)}
    IN  IF hits = {} THEN <<>> ELSE <<coll[CHOOSE k \in hits : TRUE]>>

-----------------------------------------------------------------------------
(* models::user_settings *)

\* UserSettings::update: a field present in the edit replaces the stored one.
UserSettings_update(s, data) ==
    [s EXCEPT
        !.join_date_public =
            IF data.show_join_date # <<>> THEN data.show_join_date[1] ELSE @,
        !.online_date_public =
            IF data.show_online # <<>> THEN data.show_online[1] ELSE @]

\* The same rule for allow_friend_requests, the field friend.rs reads.
update_allow_friend_requests(s, data) ==
    [s EXCEPT
        !.allow_friend_requests =
            IF data.allow_friend_requests # <<>>
            THEN data.allow_friend_requests[1] ELSE @]

NoEdit == [show_join_date |-> <<>>, show_online |-> <<>>,
           allow_friend_requests |-> <<>>]

-----------------------------------------------------------------------------
(* models::friendship *)

\* Byte strings in lexicographic order.
RECURSIVE KeyLess(_, _)
KeyLess(a, b) ==
    IF b = <<>> THEN FALSE
    ELSE IF a = <<>> THEN TRUE
    ELSE IF a[1] # b[1] THEN a[1] < b[1]
    ELSE KeyLess(Tail(a), Tail(b))

\* The two keys of a pair in one fixed order.
NormaliseKeys(keys) ==
    IF KeyLess(keys[2], keys[1]) THEN <<keys[2], keys[1]>> ELSE keys

\* Friendship::new that keeps the keys in the order given.
Friendship_new_AsGiven(keys, now) ==
    [members |-> keys, created_stamp |-> now]

\* Friendship::new
Friendship_new(keys, now) ==
    [members |-> NormaliseKeys(keys), created_stamp |-> now]

\* are_friends: a document for this pair exists.
are_friends(coll, keys) ==
    \E i \in 1 .. Len(coll) : coll[i].members = NormaliseKeys(keys)

\* Friendship::save: upsert by the pair.
Friendship_save(coll, f) ==
    LET hits == {i \in 1 .. Len(coll) : coll[i].members = f.members}
    IN  IF hits = {} THEN Append(coll, f)
        ELSE [coll EXCEPT ![CHOOSE i \in hits : \A j \in hits : i <= j] = f]

-----------------------------------------------------------------------------
(* Tasks *)

\* `alone` is a history flag: no other request was in flight at any time
\* since this one arrived.
IdleTask == [pc |-> "idle", route |-> "none", extension |-> TRUE,
             header |-> <<>>, name |-> <<>>, pagination |-> <<>>,
             edit |-> NoEdit, user |-> <<>>, target |-> <<>>,
             new_friendship |-> <<>>, resp |-> <<>>, alone |-> TRUE]

InFlight(t) == t.pc \notin {"idle", "done"}

\* resources::friend::router
FriendRoutes == {"get_friend", "get_friend_request", "post_friend_request",
                 "post_friend_request_accept"}

\* resources::user::router
UserRoutes == {"patch_user_settings"}

Routes == FriendRoutes \cup UserRoutes

\* The query strings a route may be sent.
QueryOf(route) ==
    IF route \in {"post_friend_request", "post_friend_request_accept"}
    THEN NameQueries
    ELSE IF route \in {"get_friend", "get_friend_request"}
    THEN PaginationQueries
    ELSE IF route = "patch_user_settings" THEN EditQueries
    ELSE {NoQuery}

\* Whether the route's Query extractor deserialises the query string:
\* Query<UserName> needs a name, Query<PaginationQuery> two optional u32,
\* Query<UserSettingsEdit> optional bools; GET /user takes no query.
Query_ok(route, raw) ==
    IF route \in {"post_friend_request", "post_friend_request_accept"}
    THEN raw.name # <<>>
    ELSE IF route \in {"get_friend", "get_friend_request"}
    THEN u32_ok(raw.page) /\ u32_ok(raw.page_size)
    ELSE IF route = "patch_user_settings"
    THEN /\ bool_ok(raw.show_join_date)
         /\ bool_ok(raw.show_online)
         /\ bool_ok(raw.allow_friend_requests)
    ELSE TRUE

\* The answer of axum's Query extractor to a query string it rejects: the
\* error of the deserialiser follows the fixed text. The code's grave accents
\* around name, true and false are written as apostrophes: a string of
\* this language holds no grave accent.
QueryRejection(route, raw) ==
    IF route \in {"post_friend_request", "post_friend_request_accept"}
    THEN "Failed to deserialize query string: missing field 'name'"
    ELSE IF route \in {"get_friend", "get_friend_request"}
    THEN "Failed to deserialize query string: invalid digit found in string"
    ELSE "Failed to deserialize query string: provided string was not 'true' or 'false'"

\* The first storage call of each handler.
HandlerEntry(route) ==
    CASE route = "post_friend_request" -> "send_find"
      [] route = "post_friend_request_accept" -> "accept_find"
      [] route = "patch_user_settings" -> "patch_save"
      [] route = "get_user" -> "get_user_save"
      [] route = "get_friend" -> "get_friend_list"
      [] route = "get_friend_request" -> "get_friend_request_list"

HandlerPcs == {"send_find", "send_are_friends", "send_save",
               "accept_find", "accept_save_user", "accept_are_friends",
               "accept_save_friendship", "patch_save", "get_user_save",
               "get_friend_list", "get_friend_request_list"}

\* The handler returns this response; its locals are dropped.
Respond(t, status, body) ==
    [t EXCEPT !.pc = "done", !.resp = <<Response(status, body)>>,
              !.user = <<>>, !.target = <<>>, !.new_friendship = <<>>,
              !.pagination = <<>>]

\* After ExtractUser the Query extractor runs: a query string it rejects is
\* answered 400 and the handler is not called. Otherwise the handler starts
\* and runs to its first storage call: query.sanitize(), and for the lists
\* the defaults of page and page_size.
HandlerStart(t, raw) ==
    IF ~Query_ok(t.route, raw) THEN Respond(t, 400, QueryRejection(t.route, raw))
    ELSE IF t.route \in {"post_friend_request", "post_friend_request_accept"}
    THEN [t EXCEPT !.pc = HandlerEntry(t.route),
                   !.name = UserName_sanitize([name |-> raw.name[1]]).name]
    ELSE IF t.route \in {"get_friend", "get_friend_request"}
    THEN LET query == sanitize([page |-> raw.page, page_size |-> raw.page_size])
         IN  [t EXCEPT !.pc = HandlerEntry(t.route),
                       !.pagination = <<[page |-> unwrap_or(query.page, 1),
                                         page_size |-> unwrap_or(query.page_size, 10)]>>]
    ELSE [t EXCEPT !.pc = HandlerEntry(t.route),
                   !.edit = [show_join_date |-> bool_from(raw.show_join_date),
                             show_online |-> bool_from(raw.show_online),
                             allow_friend_requests |->
                                    bool_from(raw.allow_friend_requests)]]

\* No function is under call while requests are served.
NoCall == [fn |-> "none"]

\* The service after start-up: two users, no friendship, no request.
StoreInit ==
    /\ user_collection =
        [k \in Keys |->
            [key |-> k,
             name |-> NameOf(k),
             created_stamp |-> timestamp_now_nanos(CreatedMicros),
             last_access_stamp |-> 0,
             endpoint_usage |-> EmptyMap,
             settings |-> DefaultSettings,
             friend_requests |-> EmptyMap]]
    /\ friendship_collection = <<>>
    /\ clock = CreatedMicros
    /\ task = [r \in Tasks |-> IdleTask]
    /\ started = 0

Init == StoreInit /\ call = NoCall

\* A request arrives at the lowest slot that runs no request and is routed to
\* a handler, one of `routes`; its extractors run first. What the request
\* carries (extensions, headers, query string) is drawn where it is read.
ReceiveRoute(r, routes) ==
    /\ ~InFlight(task[r])
    /\ \A q \in Tasks : q < r => InFlight(task[q])
    /\ started < MaxRequests
    /\ \E route \in routes :
            task' = [q \in Tasks |->
                IF q = r THEN
                    [IdleTask EXCEPT !.pc = "auth_find", !.route = route,
                                     !.alone = \A p \in Tasks \ {r} :
                                                    ~InFlight(task[p])]
                ELSE IF InFlight(task[q]) THEN [task[q] EXCEPT !.alone = FALSE]
                ELSE task[q]]
    /\ started' = started + 1
    /\ UNCHANGED <<user_collection, friendship_collection, clock, call>>

Receive(r) == ReceiveRoute(r, Routes)

-----------------------------------------------------------------------------
(* security::authentication: ExtractUser::from_request_parts *)

\* The Extension extractor, the header checks, then find_user_by_key; on a
\* hit the loaded user is stamped. The read lock on the database handle is
\* taken on the way: no code takes the write lock, so the wait never blocks
\* and is no step of its own.
AuthFind(r) ==
    /\ task[r].pc = "auth_find"
    /\ \E header \in Headers, extension \in BOOLEAN :
        LET t == [task[r] EXCEPT !.header = header, !.extension = extension] IN
        IF ~t.extension THEN
            /\ task' = [task EXCEPT ![r] =
                    Respond(t, 500,
                            "An error occured while trying to access database")]
            /\ UNCHANGED clock
        ELSE IF t.header = <<>> THEN
            /\ task' = [task EXCEPT ![r] =
                            Respond(t, 400, "API key header is missing")]
            /\ UNCHANGED clock
        ELSE IF ~to_str_ok(t.header[1]) THEN
            /\ task' = [task EXCEPT ![r] =
                            Respond(t, 400, "Invalid API key format")]
            /\ UNCHANGED clock
        ELSE LET found == find_user_by_key(user_collection, t.header[1]) IN
            IF found = <<>> THEN
                /\ task' = [task EXCEPT ![r] =
                                Respond(t, 401, "Invalid API key")]
                /\ UNCHANGED clock
            ELSE \E now \in Readings :
                /\ clock' = now
                /\ task' = [task EXCEPT ![r] =
                    [t EXCEPT !.pc = "auth_save",
                              !.user = <<[found[1] EXCEPT !.last_access_stamp =
                                            timestamp_now_micro(now)]>>]]
    /\ UNCHANGED <<user_collection, friendship_collection, started, call>>

\* find_user_by_key fails in the storage layer.
AuthFindError(r) ==
    /\ task[r].pc = "auth_find"
    /\ \E header \in Headers :
        /\ header # <<>>
        /\ to_str_ok(header[1])
        /\ task' = [task EXCEPT ![r] =
                Respond([@ EXCEPT !.header = header], 500,
                        "An error occured while trying to fetch user")]
    /\ UNCHANGED <<user_collection, friendship_collection, clock, started, call>>

\* The extractors that follow ExtractUser run although the stamped user was
\* not saved.
AuthSave_NoSave(r) ==
    /\ task[r].pc = "auth_save"
    /\ \E raw \in QueryOf(task[r].route) :
            task' = [task EXCEPT ![r] = HandlerStart(@, raw)]
    /\ UNCHANGED <<user_collection, friendship_collection, clock, started, call>>

\* user.save succeeds and ExtractUser returns the user; the Query extractor
\* reads the query string and the handler starts, or the query string is
\* rejected with the caller already saved.
AuthSave(r) ==
    /\ task[r].pc = "auth_save"
    /\ user_collection' = UserSave(user_collection, task[r].user[1])
    /\ \E raw \in QueryOf(task[r].route) :
            task' = [task EXCEPT ![r] = HandlerStart(@, raw)]
    /\ UNCHANGED <<friendship_collection, clock, started, call>>

\* user.save fails in the storage layer.
AuthSaveError(r) ==
    /\ task[r].pc = "auth_save"
    /\ task' = [task EXCEPT ![r] =
            Respond(@, 500, "An error occured while trying to save user")]
    /\ UNCHANGED <<user_collection, friendship_collection, clock, started, call>>

-----------------------------------------------------------------------------
(* resources::friend: post_friend_request *)

SendNotFound == "User not found or user does not allow friend requests"

\* SendFindStep with a message of its own for a user who allows no requests.
SendFindStep_TellsRefusal(t, found) ==
    IF found = <<>> THEN Respond(t, 404, SendNotFound)
    ELSE IF found[1].key = t.user[1].key THEN
        Respond([t EXCEPT !.target = found], 400,
                "Can't send a friend request to yourself")
    ELSE IF ~found[1].settings.allow_friend_requests THEN
        Respond([t EXCEPT !.target = found], 404,
                "User does not allow friend requests")
    ELSE [t EXCEPT !.pc = "send_are_friends", !.target = found]

\* SendFindStep without the self check.
SendFindStep_NoSelfCheck(t, found) ==
    IF found = <<>> THEN Respond(t, 404, SendNotFound)
    ELSE IF ~found[1].settings.allow_friend_requests THEN
        Respond([t EXCEPT !.target = found], 404, SendNotFound)
    ELSE [t EXCEPT !.pc = "send_are_friends", !.target = found]

\* The code that follows find_user_by_name: the self check and the
\* allow_friend_requests check.
SendFindStep(t, found) ==
    IF found = <<>> THEN Respond(t, 404, SendNotFound)
    ELSE IF found[1].key = t.user[1].key THEN
        Respond([t EXCEPT !.target = found], 400,
                "Can't send a friend request to yourself")
    ELSE IF ~found[1].settings.allow_friend_requests THEN
        Respond([t EXCEPT !.target = found], 404, SendNotFound)
    ELSE [t EXCEPT !.pc = "send_are_friends", !.target = found]

\* find_user_by_name succeeds.
SendFind(r) ==
    /\ task[r].pc = "send_find"
    /\ task' = [task EXCEPT ![r] =
            SendFindStep(@, find_user_by_name(user_collection, @.name))]
    /\ UNCHANGED <<user_collection, friendship_collection, clock, started, call>>

SendFindError(r) ==
    /\ task[r].pc = "send_find"
    /\ task' = [task EXCEPT ![r] =
            Respond(@, 500, "An error occurred while fetching user")]
    /\ UNCHANGED <<user_collection, friendship_collection, clock, started, call>>

\* SendAreFriends without the pending check: the entry is inserted again.
SendAreFriends_NoPendingCheck(r) ==
    /\ task[r].pc = "send_are_friends"
    /\ LET t == task[r]
           user == t.user[1]
           target == t.target[1]
           already_friends ==
               are_friends(friendship_collection, <<user.key, target.key>>)
       IN  IF already_friends THEN
                /\ task' = [task EXCEPT ![r] =
                        Respond(t, 400, "You are already friends with the user")]
                /\ UNCHANGED clock
           ELSE \E now \in Readings :
                /\ clock' = now
                /\ task' = [task EXCEPT ![r] =
                    [t EXCEPT !.pc = "send_save",
                              !.target = <<[target EXCEPT !.friend_requests =
                                    MapInsert(@, user.key,
                                              timestamp_now_nanos(now))]>>]]
    /\ UNCHANGED <<user_collection, friendship_collection, started, call>>

\* SendAreFriends with the pending check ahead of the friendship check.
SendAreFriends_PendingFirst(r) ==
    /\ task[r].pc = "send_are_friends"
    /\ LET t == task[r]
           user == t.user[1]
           target == t.target[1]
           already_friends ==
               are_friends(friendship_collection, <<user.key, target.key>>)
       IN  IF user.key \in DOMAIN target.friend_requests THEN
                /\ task' = [task EXCEPT ![r] =
                        Respond(t, 400, "Already sent a request to the user")]
                /\ UNCHANGED clock
           ELSE IF already_friends THEN
                /\ task' = [task EXCEPT ![r] =
                        Respond(t, 400, "You are already friends with the user")]
                /\ UNCHANGED clock
           ELSE \E now \in Readings :
                /\ clock' = now
                /\ task' = [task EXCEPT ![r] =
                    [t EXCEPT !.pc = "send_save",
                              !.target = <<[target EXCEPT !.friend_requests =
                                    MapInsert(@, user.key,
                                              timestamp_now_nanos(now))]>>]]
    /\ UNCHANGED <<user_collection, friendship_collection, started, call>>

\* are_friends, then the pending check on the loaded target and the insert.
SendAreFriends(r) ==
    /\ task[r].pc = "send_are_friends"
    /\ LET t == task[r]
           user == t.user[1]
           target == t.target[1]
           already_friends ==
               are_friends(friendship_collection, <<user.key, target.key>>)
       IN  IF already_friends THEN
                /\ task' = [task EXCEPT ![r] =
                        Respond(t, 400, "You are already friends with the user")]
                /\ UNCHANGED clock
           ELSE IF user.key \in DOMAIN target.friend_requests THEN
                /\ task' = [task EXCEPT ![r] =
                        Respond(t, 400, "Already sent a request to the user")]
                /\ UNCHANGED clock
           ELSE \E now \in Readings :
                /\ clock' = now
                /\ task' = [task EXCEPT ![r] =
                    [t EXCEPT !.pc = "send_save",
                              !.target = <<[target EXCEPT !.friend_requests =
                                    MapInsert(@, user.key,
                                              timestamp_now_nanos(now))]>>]]
    /\ UNCHANGED <<user_collection, friendship_collection, started, call>>

SendAreFriendsError(r) ==
    /\ task[r].pc = "send_are_friends"
    /\ task' = [task EXCEPT ![r] =
            Respond(@, 500, "An error occurred while fetching friendship")]
    /\ UNCHANGED <<user_collection, friendship_collection, clock, started, call>>

\* SendSave that accepts on the spot when the target's request to the caller
\* is pending: the friendship is stored along with the target.
SendSave_AutoAccept(r) ==
    /\ task[r].pc = "send_save"
    /\ user_collection' = UserSave(user_collection, task[r].target[1])
    /\ LET caller == task[r].user[1].key
           target == task[r].target[1].key
       IN  friendship_collection' =
                IF target \in DOMAIN user_collection[caller].friend_requests
                THEN Friendship_save(friendship_collection,
                        Friendship_new(<<caller, target>>,
                                       timestamp_now_nanos(clock)))
                ELSE friendship_collection
    /\ task' = [task EXCEPT ![r] = Respond(@, 200, "Friend request sent")]
    /\ UNCHANGED <<clock, started, call>>

\* target.save succeeds.
SendSave(r) ==
    /\ task[r].pc = "send_save"
    /\ user_collection' = UserSave(user_collection, task[r].target[1])
    /\ task' = [task EXCEPT ![r] = Respond(@, 200, "Friend request sent")]
    /\ UNCHANGED <<friendship_collection, clock, started, call>>

SendSaveError(r) ==
    /\ task[r].pc = "send_save"
    /\ task' = [task EXCEPT ![r] =
            Respond(@, 500, "An error occured while saving the target user")]
    /\ UNCHANGED <<user_collection, friendship_collection, clock, started, call>>

-----------------------------------------------------------------------------
(* resources::friend: post_friend_request_accept *)

AcceptNotFound == "User not found or no pending request from user"

\* AcceptFindStep without the pending check.
AcceptFindStep_NoPendingCheck(t, found) ==
    IF found = <<>> THEN Respond(t, 404, AcceptNotFound)
    ELSE [t EXCEPT !.pc = "accept_save_user", !.target = found,
                   !.user = <<[t.user[1] EXCEPT !.friend_requests =
                                MapRemove(@, found[1].key)]>>]

\* AcceptFindStep that leaves the accepted entry in the caller's map.
AcceptFindStep_KeepsRequest(t, found) ==
    IF found = <<>> THEN Respond(t, 404, AcceptNotFound)
    ELSE IF found[1].key \notin DOMAIN t.user[1].friend_requests THEN
        Respond([t EXCEPT !.target = found], 404, AcceptNotFound)
    ELSE [t EXCEPT !.pc = "accept_save_user", !.target = found]

\* The code that follows find_user_by_name: the pending check on the caller
\* as loaded by the extractor, and the removal of the entry from that copy.
AcceptFindStep(t, found) ==
    IF found = <<>> THEN Respond(t, 404, AcceptNotFound)
    ELSE IF found[1].key \notin DOMAIN t.user[1].friend_requests THEN
        Respond([t EXCEPT !.target = found], 404, AcceptNotFound)
    ELSE [t EXCEPT !.pc = "accept_save_user", !.target = found,
                   !.user = <<[t.user[1] EXCEPT !.friend_requests =
                                MapRemove(@, found[1].key)]>>]

\* find_user_by_name succeeds.
AcceptFind(r) ==
    /\ task[r].pc = "accept_find"
    /\ task' = [task EXCEPT ![r] =
            AcceptFindStep(@, find_user_by_name(user_collection, @.name))]
    /\ UNCHANGED <<user_collection, friendship_collection, clock, started, call>>

AcceptFindError(r) ==
    /\ task[r].pc = "accept_find"
    /\ task' = [task EXCEPT ![r] =
            Respond(@, 500, "An error occurred while fetching user")]
    /\ UNCHANGED <<user_collection, friendship_collection, clock, started, call>>

\* user.save succeeds.
AcceptSaveUser(r) ==
    /\ task[r].pc = "accept_save_user"
    /\ user_collection' = UserSave(user_collection, task[r].user[1])
    /\ task' = [task EXCEPT ![r].pc = "accept_are_friends"]
    /\ UNCHANGED <<friendship_collection, clock, started, call>>

AcceptSaveUserError(r) ==
    /\ task[r].pc = "accept_save_user"
    /\ task' = [task EXCEPT ![r] =
            Respond(@, 500, "An error occured while saving the user")]
    /\ UNCHANGED <<user_collection, friendship_collection, clock, started, call>>

\* are_friends again, then Friendship::new.
AcceptAreFriends(r) ==
    /\ task[r].pc = "accept_are_friends"
    /\ LET t == task[r]
           user == t.user[1]
           target == t.target[1]
           already_friends ==
               are_friends(friendship_collection, <<user.key, target.key>>)
       IN  IF already_friends THEN
                /\ task' = [task EXCEPT ![r] =
                        Respond(t, 400, "You are already friends with the user")]
                /\ UNCHANGED clock
           ELSE \E now \in Readings :
                /\ clock' = now
                /\ task' = [task EXCEPT ![r] =
                    [t EXCEPT !.pc = "accept_save_friendship",
                              !.new_friendship =
                                <<Friendship_new(<<user.key, target.key>>,
                                                 timestamp_now_nanos(now))>>]]
    /\ UNCHANGED <<user_collection, friendship_collection, started, call>>

AcceptAreFriendsError(r) ==
    /\ task[r].pc = "accept_are_friends"
    /\ task' = [task EXCEPT ![r] =
            Respond(@, 500, "An error occured while trying to fetch friendship")]
    /\ UNCHANGED <<user_collection, friendship_collection, clock, started, call>>

\* new_friendship.save succeeds.
AcceptSaveFriendship(r) ==
    /\ task[r].pc = "accept_save_friendship"
    /\ friendship_collection' =
            Friendship_save(friendship_collection, task[r].new_friendship[1])
    /\ task' = [task EXCEPT ![r] = Respond(@, 200, "Friend request accepted")]
    /\ UNCHANGED <<user_collection, clock, started, call>>

AcceptSaveFriendshipError(r) ==
    /\ task[r].pc = "accept_save_friendship"
    /\ task' = [task EXCEPT ![r] =
            Respond(@, 500, "An error occured while saving the friendship")]
    /\ UNCHANGED <<user_collection, friendship_collection, clock, started, call>>

-----------------------------------------------------------------------------
(* resources::user: patch_user_settings *)

\* The edit is applied to the caller as loaded by the extractor, and saved.
PatchSave(r) ==
    /\ task[r].pc = "patch_save"
    /\ LET t == task[r]
           user == [t.user[1] EXCEPT !.settings =
                        update_allow_friend_requests(
                            UserSettings_update(@, t.edit), t.edit)]
       IN  /\ user_collection' = UserSave(user_collection, user)
           /\ task' = [task EXCEPT ![r] =
                    Respond([t EXCEPT !.user = <<user>>], 200, "settings")]
    /\ UNCHANGED <<friendship_collection, clock, started, call>>

PatchSaveError(r) ==
    /\ task[r].pc = "patch_save"
    /\ task' = [task EXCEPT ![r] =
            Respond(@, 500, "An error occured while saving the user")]
    /\ UNCHANGED <<user_collection, friendship_collection, clock, started, call>>

-----------------------------------------------------------------------------
(* resources::friend: get_friend, get_friend_request *)

\* friend_list_with_pagination succeeds: the page of the caller's friends.
GetFriend(r) ==
    /\ task[r].pc = "get_friend_list"
    /\ task' = [task EXCEPT ![r] = Respond(@, 200, "FriendList")]
    /\ UNCHANGED <<user_collection, friendship_collection, clock, started, call>>

GetFriendError(r) ==
    /\ task[r].pc = "get_friend_list"
    /\ task' = [task EXCEPT ![r] =
            Respond(@, 500, "An error occured while fetching your friendships")]
    /\ UNCHANGED <<user_collection, friendship_collection, clock, started, call>>

\* friend_requests_with_pagination succeeds: the page of the users whose
\* requests are pending with the caller.
GetFriendRequest(r) ==
    /\ task[r].pc = "get_friend_request_list"
    /\ task' = [task EXCEPT ![r] = Respond(@, 200, "FriendRequests")]
    /\ UNCHANGED <<user_collection, friendship_collection, clock, started, call>>

GetFriendRequestError(r) ==
    /\ task[r].pc = "get_friend_request_list"
    /\ task' = [task EXCEPT ![r] =
            Respond(@, 500,
                    "An error occured while fetching your friend requests")]
    /\ UNCHANGED <<user_collection, friendship_collection, clock, started, call>>

-----------------------------------------------------------------------------
(* resources::user: get_user *)

\* The hit is recorded on the caller as loaded by the extractor, and saved.
GetUserSave(r) ==
    /\ task[r].pc = "get_user_save"
    /\ \E now \in Readings :
        LET t == task[r]
            user == use_endpoint(t.user[1], "GET", "/user", now)
        IN  /\ clock' = now
            /\ user_collection' = UserSave(user_collection, user)
            /\ task' = [task EXCEPT ![r] =
                    Respond([t EXCEPT !.user = <<user>>], 200,
                            "private_information")]
    /\ UNCHANGED <<friendship_collection, started, call>>

GetUserSaveError(r) ==
    /\ task[r].pc = "get_user_save"
    /\ task' = [task EXCEPT ![r] =
            Respond(@, 500, "An error occured while saving the user")]
    /\ UNCHANGED <<user_collection, friendship_collection, clock, started, call>>

-----------------------------------------------------------------------------

Next ==
    \E r \in Tasks :
        \/ Receive(r)
        \/ AuthFind(r)
        \/ AuthFindError(r)
        \/ AuthSave(r)
        \/ AuthSaveError(r)
        \/ SendFind(r)
        \/ SendFindError(r)
        \/ SendAreFriends(r)
        \/ SendAreFriendsError(r)
        \/ SendSave(r)
        \/ SendSaveError(r)
        \/ AcceptFind(r)
        \/ AcceptFindError(r)
        \/ AcceptSaveUser(r)
        \/ AcceptSaveUserError(r)
        \/ AcceptAreFriends(r)
        \/ AcceptAreFriendsError(r)
        \/ AcceptSaveFriendship(r)
        \/ AcceptSaveFriendshipError(r)
        \/ PatchSave(r)
        \/ PatchSaveError(r)
        \/ GetFriend(r)
        \/ GetFriendError(r)
        \/ GetFriendRequest(r)
        \/ GetFriendRequestError(r)

Spec == Init /\ [][Next]_vars

-----------------------------------------------------------------------------
(* Requests that record endpoint hits, next to send-request calls *)

UsageRoutes == {"get_user", "post_friend_request"}

ReceiveUsage(r) == ReceiveRoute(r, UsageRoutes)

NextUsage ==
    \E r \in Tasks :
        \/ ReceiveUsage(r)
        \/ AuthFind(r)
        \/ AuthFindError(r)
        \/ AuthSave(r)
        \/ AuthSaveError(r)
        \/ SendFind(r)
        \/ SendFindError(r)
        \/ SendAreFriends(r)
        \/ SendAreFriendsError(r)
        \/ SendSave(r)
        \/ SendSaveError(r)
        \/ GetUserSave(r)
        \/ GetUserSaveError(r)

SpecUsage == Init /\ [][NextUsage]_vars

-----------------------------------------------------------------------------
(* Accept calls of two users who hold each other's request *)

\* The store after a's send-request to b and b's to a, both at the clock
\* reading of start-up: each user is stamped by its own call and holds the
\* other's request.
MutualRequests ==
    [k \in Keys |->
        [key |-> k,
         name |-> NameOf(k),
         created_stamp |-> timestamp_now_nanos(CreatedMicros),
         last_access_stamp |-> timestamp_now_micro(CreatedMicros),
         endpoint_usage |-> EmptyMap,
         settings |-> DefaultSettings,
         friend_requests |->
            MapInsert(EmptyMap, CHOOSE other \in Keys : other # k,
                      timestamp_now_nanos(CreatedMicros))]]

\* Both send-requests have returned; `started` counts the requests from here.
InitMutual ==
    /\ user_collection = MutualRequests
    /\ friendship_collection = <<>>
    /\ clock = CreatedMicros
    /\ task = [r \in Tasks |-> IdleTask]
    /\ started = 0
    /\ call = NoCall

AcceptRoutes == {"post_friend_request_accept"}

ReceiveAccept(r) == ReceiveRoute(r, AcceptRoutes)

NextMutual ==
    \E r \in Tasks :
        \/ ReceiveAccept(r)
        \/ AuthFind(r)
        \/ AuthFindError(r)
        \/ AuthSave(r)
        \/ AuthSaveError(r)
        \/ AcceptFind(r)
        \/ AcceptFindError(r)
        \/ AcceptSaveUser(r)
        \/ AcceptSaveUserError(r)
        \/ AcceptAreFriends(r)
        \/ AcceptAreFriendsError(r)
        \/ AcceptSaveFriendship(r)
        \/ AcceptSaveFriendshipError(r)

SpecMutual == InitMutual /\ [][NextMutual]_vars

-----------------------------------------------------------------------------
(* Properties *)

\* Task r returns its response in this step.
Completes(r) == task[r].pc # "done" /\ task'[r].pc = "done"

\* Task r returns this response in this step.
Returns(r, status, body) ==
    Completes(r) /\ task'[r].resp = <<Response(status, body)>>

\* Task r has returned this response.
Returned(r, route, status, body) ==
    /\ task[r].pc = "done"
    /\ task[r].route = route
    /\ task[r].resp = <<Response(status, body)>>

Pending(from, to) == from \in DOMAIN user_collection[to].friend_requests

\* C1 (I2): whenever a Friendship document holds the keys a and b, b is not a
\* key of a's stored friend_requests and a is not a key of b's.
C1_NoRequestBetweenFriends ==
    \A i \in 1 .. Len(friendship_collection) :
        LET m == friendship_collection[i].members
        IN  ~Pending(m[1], m[2]) /\ ~Pending(m[2], m[1])

\* C2: the friendship collection never holds two documents for the same
\* unordered pair of keys, also when two accepts of the same pair (a replay
\* by one user, or the accepts of two users who hold each other's request)
\* both pass the are_friends re-check before either saves.
C2_AtMostOneFriendship ==
    \A i, j \in 1 .. Len(friendship_collection) :
        LET m == friendship_collection[i].members
            n == friendship_collection[j].members
        IN  {m[1], m[2]} = {n[1], n[2]} => i = j

\* a's accept of b and b's accept of a have both saved their Friendship:
\* each returned 200, which it does only after are_friends answered false,
\* and the collection holds one document.
C2_Witness ==
    /\ \E r, q \in Tasks :
        /\ Returned(r, "post_friend_request_accept", 200,
                    "Friend request accepted")
        /\ Returned(q, "post_friend_request_accept", 200,
                    "Friend request accepted")
        /\ task[r].header = <<KeyA>> /\ to_lowercase(task[r].name) = NameB
        /\ task[q].header = <<KeyB>> /\ to_lowercase(task[q].name) = NameA
    /\ Len(friendship_collection) = 1

-----------------------------------------------------------------------------
(* Send then accept *)

\* The request of task r ran with no other request in flight, was
\* authenticated, and no storage call of it failed.
RanAloneTo(r, route) ==
    /\ Completes(r)
    /\ task[r].route = route
    /\ task[r].alone
    /\ task[r].pc \in HandlerPcs
    /\ task'[r].resp[1].status # 500

\* What the send of task r finds in the store: another user, who allows
\* friend requests and is not a friend of the caller.
SendPrecondition(r) ==
    LET caller == task[r].user[1].key
        found == find_user_by_name(user_collection, task[r].name)
    IN  /\ found # <<>>
        /\ found[1].key # caller
        /\ found[1].settings.allow_friend_requests
        /\ ~are_friends(friendship_collection, <<caller, found[1].key>>)

SendOutcome(r) ==
    LET caller == task[r].user[1].key
        found == find_user_by_name(user_collection, task[r].name)
    IN  /\ Returns(r, 200, "Friend request sent")
        /\ caller \in DOMAIN user_collection'[found[1].key].friend_requests

\* The accept of task r, by a caller who is not yet a friend of the user it
\* names: a pending request is not answered at the pending check, and past
\* that check the accept returns 200 with the friendship stored and the
\* request gone from the caller's stored map.
AcceptOutcome(r) ==
    LET caller == task[r].user[1].key
        found == find_user_by_name(user_collection, task[r].name)
    IN  (/\ found # <<>>
         /\ found[1].key # caller
         /\ ~are_friends(friendship_collection, <<caller, found[1].key>>))
        => IF task[r].pc = "accept_find"
           THEN ~Pending(found[1].key, caller)
           ELSE /\ Returns(r, 200, "Friend request accepted")
                /\ are_friends(friendship_collection',
                               <<caller, found[1].key>>)
                /\ found[1].key \notin
                        DOMAIN user_collection'[caller].friend_requests

\* C3 as stated: with no other request running and no storage failure, a send
\* from a to another user b who allows requests and is not a's friend returns
\* 200 and leaves a's key in b's friend_requests.
C3_SendAlwaysSucceeds ==
    [][\A r \in Tasks :
        (RanAloneTo(r, "post_friend_request") /\ SendPrecondition(r))
            => SendOutcome(r)]_vars

\* C3 (amended): the same when moreover a has no request pending at b; and
\* b's accept of a pending request from a, run alone while they are not
\* friends, returns 200, after which are_friends({a,b}) holds and a's key is
\* gone from b's friend_requests.
C3_SendThenAccept ==
    [][\A r \in Tasks :
        /\ (/\ RanAloneTo(r, "post_friend_request")
            /\ SendPrecondition(r)
            /\ ~Pending(task[r].user[1].key,
                        find_user_by_name(user_collection,
                                          task[r].name)[1].key))
                => SendOutcome(r)
        /\ RanAloneTo(r, "post_friend_request_accept") => AcceptOutcome(r)]_vars

\* The scenario has run: two requests were received, the second an accept
\* that ran alone and returned 200.
C3_Witness ==
    /\ started = 2
    /\ \E r \in Tasks :
        /\ Returned(r, "post_friend_request_accept", 200,
                    "Friend request accepted")
        /\ task[r].alone
    /\ Len(friendship_collection) = 1
    /\ \A k \in Keys : user_collection[k].friend_requests = EmptyMap

-----------------------------------------------------------------------------

\* C4 (I3): no user's stored friend_requests holds the user's own key, and a
\* send whose target is the caller returns 400 "Can't send a friend request
\* to yourself" at the self check, with the store unchanged.
C4_NoSelfRequest ==
    /\ [](\A k \in Keys : ~Pending(k, k))
    /\ [][\A r \in Tasks :
            LET found == find_user_by_name(user_collection, task[r].name)
            IN  (/\ task[r].pc = "send_find"
                 /\ task'[r].pc # "send_find"
                 /\ task'[r].resp # <<Response(500,
                        "An error occurred while fetching user")>>
                 /\ found # <<>>
                 /\ found[1].key = task[r].user[1].key)
                => /\ Returns(r, 400, "Can't send a friend request to yourself")
                   /\ user_collection' = user_collection]_vars

\* A send to oneself has been answered.
C4_Witness ==
    \E r \in Tasks : Returned(r, "post_friend_request", 400,
                              "Can't send a friend request to yourself")

-----------------------------------------------------------------------------
(* Authentication *)

\* Task r leaves this position in this step.
Leaves(r, pc) == task[r].pc = pc /\ task'[r].pc # pc

\* Task r is rejected in this step: it returns the response, and no user
\* document is written.
Rejected(r, status, body) ==
    Returns(r, status, body) /\ user_collection' = user_collection

SaveFailed == "An error occured while trying to save user"
FetchFailed == "An error occured while trying to fetch user"

\* A handler starts for task r only by the step that saves the caller with
\* this request's last_access_stamp, which is positive; at that moment the
\* store holds the stamped caller.
StampedAtHandlerStart(r) ==
    (task[r].pc \notin HandlerPcs /\ task'[r].pc \in HandlerPcs)
        => /\ task[r].pc = "auth_save"
           /\ task[r].user[1].last_access_stamp > 0
           /\ user_collection'[task[r].user[1].key] = task[r].user[1]

\* A step of task r that leaves the save without the stamped caller in the
\* store starts no handler and ends the request with 500.
FailedSaveAnswers500(r) ==
    (Leaves(r, "auth_save")
        /\ user_collection'[task[r].user[1].key] # task[r].user[1])
            => Rejected(r, 500, SaveFailed)

\* Task r returns 200 from its handler in this step.
ReturnsOkFromHandler(r) ==
    /\ Completes(r)
    /\ task[r].pc \in HandlerPcs
    /\ task'[r].resp[1].status = 200

\* C5 as stated: the stamp is stored when the handler starts, a failed save
\* is answered 500 with no handler run, and after any successful
\* authenticated call the caller's stored last_access_stamp is positive.
C5_StampAfterAnyCall ==
    [][\A r \in Tasks :
        /\ StampedAtHandlerStart(r)
        /\ FailedSaveAnswers500(r)
        /\ ReturnsOkFromHandler(r)
            => user_collection'[task[r].user[1].key].last_access_stamp > 0]_vars

\* C5, amended: the stamp is stored when the handler starts, a failed save
\* is answered 500 with no handler run, and after a successful authenticated
\* call that ran with no other request in flight the caller's stored
\* last_access_stamp is positive.
C5_StampBeforeHandler ==
    [][\A r \in Tasks :
        /\ StampedAtHandlerStart(r)
        /\ FailedSaveAnswers500(r)
        /\ (ReturnsOkFromHandler(r) /\ task[r].alone)
            => user_collection'[task[r].user[1].key].last_access_stamp > 0]_vars

\* A handler has started for a user whose stamp was 0, and the store holds
\* the stamp of that request.
C5_Witness ==
    \E r \in Tasks :
        /\ task[r].pc \in HandlerPcs
        /\ started = 1
        /\ user_collection[task[r].user[1].key].last_access_stamp
                = task[r].user[1].last_access_stamp
        /\ task[r].user[1].last_access_stamp > 0

\* C6: given a handle to the storage layer (the Extension is present), the
\* extractor answers a missing header with 400, a header that is not ASCII
\* text with 400, a key of no user with 401 unless the lookup failed,
\* and a failed lookup with 500; none of these steps writes a user document,
\* and neither the save nor a handler is ever reached without a user's key.
C6_AuthRejections ==
    /\ [](\A r \in Tasks :
            task[r].pc \in HandlerPcs \cup {"auth_save"}
                => task[r].header \in {<<k>> : k \in Keys})
    /\ [][\A r \in Tasks : (Leaves(r, "auth_find") /\ task'[r].extension) =>
            LET h == task'[r].header IN
            /\ h = <<>> => Rejected(r, 400, "API key header is missing")
            /\ h = <<MalformedKey>>
                => Rejected(r, 400, "Invalid API key format")
            /\ h = <<UnknownKey>>
                => \/ Rejected(r, 401, "Invalid API key")
                   \/ Rejected(r, 500, FetchFailed)
            /\ h \in {<<k>> : k \in Keys}
                => \/ task'[r].pc = "auth_save" /\ UNCHANGED user_collection
                   \/ Rejected(r, 500, FetchFailed)]_vars

\* An unknown key has been answered 401 and a malformed one 400, and no user
\* document carries a stamp.
C6_Witness ==
    /\ \E r \in Tasks :
        /\ task[r].pc = "done"
        /\ task[r].header = <<UnknownKey>>
        /\ task[r].resp = <<Response(401, "Invalid API key")>>
    /\ \E r \in Tasks :
        /\ task[r].pc = "done"
        /\ task[r].header = <<MalformedKey>>
        /\ task[r].resp = <<Response(400, "Invalid API key format")>>
    /\ \A k \in Keys : user_collection[k].last_access_stamp = 0

-----------------------------------------------------------------------------
(* Error answers of the friend handlers *)

\* C7: when the target as loaded already holds the caller's key, and the two
\* are not friends, the send returns 400 "Already sent a request to the user"
\* at the pending check: it never reaches the save, and the store, with the
\* timestamp of the pending request, stays as it is.
C7_DuplicateSend ==
    [][\A r \in Tasks :
        (/\ Leaves(r, "send_are_friends")
         /\ task'[r].resp # <<Response(500,
                "An error occurred while fetching friendship")>>
         /\ ~are_friends(friendship_collection,
                         <<task[r].user[1].key, task[r].target[1].key>>)
         /\ task[r].user[1].key \in DOMAIN task[r].target[1].friend_requests)
        => /\ Returns(r, 400, "Already sent a request to the user")
           /\ user_collection' = user_collection]_vars

\* A second send has been answered while the first request is pending with
\* the timestamp it was given, and the clock has moved on since.
C7_Witness ==
    \E r \in Tasks :
        /\ Returned(r, "post_friend_request", 400,
                    "Already sent a request to the user")
        /\ \E a, b \in Keys :
            /\ task[r].header = <<a>>
            /\ Pending(a, b)
            /\ user_collection[b].friend_requests[a]
                    < timestamp_now_nanos(clock)

\* C8: when the caller as loaded by the extractor holds no request from the
\* user the accept names, the accept returns 404 "User not found or no pending
\* request from user" at the pending check, and neither collection changes.
C8_AcceptWithoutRequest ==
    [][\A r \in Tasks :
        LET found == find_user_by_name(user_collection, task[r].name)
        IN  (/\ Leaves(r, "accept_find")
             /\ task'[r].resp # <<Response(500,
                    "An error occurred while fetching user")>>
             /\ found # <<>>
             /\ found[1].key \notin DOMAIN task[r].user[1].friend_requests)
            => /\ Returns(r, 404, AcceptNotFound)
               /\ user_collection' = user_collection
               /\ friendship_collection' = friendship_collection]_vars

\* An accept naming an existing user who has sent nothing was answered 404,
\* and there is no friendship.
C8_Witness ==
    \E r \in Tasks :
        /\ Returned(r, "post_friend_request_accept", 404, AcceptNotFound)
        /\ task[r].alone
        /\ find_user_by_name(user_collection, task[r].name) # <<>>
        /\ friendship_collection = <<>>
        /\ \A k \in Keys : user_collection[k].friend_requests = EmptyMap

\* C9: for a send about to look its target up, the response when no user has
\* the name equals the response when the name is that of another user who
\* allows no friend requests; for an accept, the response when no user has the
\* name equals the response when it is that of another user with no request
\* pending at the caller.
C9_NonEnumerable404 ==
    \A r \in Tasks :
        /\ task[r].pc = "send_find" =>
            \A k \in Keys \ {task[r].user[1].key} :
                ~user_collection[k].settings.allow_friend_requests
                => /\ SendFindStep(task[r], <<user_collection[k]>>).resp
                        = SendFindStep(task[r], <<>>).resp
                   /\ SendFindStep(task[r], <<>>).resp # <<>>
        /\ task[r].pc = "accept_find" =>
            \A k \in Keys \ {task[r].user[1].key} :
                k \notin DOMAIN task[r].user[1].friend_requests
                => /\ AcceptFindStep(task[r], <<user_collection[k]>>).resp
                        = AcceptFindStep(task[r], <<>>).resp
                   /\ AcceptFindStep(task[r], <<>>).resp # <<>>

\* A send that named a user who allows no requests and a send that named
\* nobody have both been answered, with the same response.
C9_Witness ==
    \E r, q \in Tasks :
        /\ Returned(r, "post_friend_request", 404, SendNotFound)
        /\ Returned(q, "post_friend_request", 404, SendNotFound)
        /\ task[r].header = task[q].header
        /\ find_user_by_name(user_collection, task[q].name) = <<>>
        /\ LET found == find_user_by_name(user_collection, task[r].name)
           IN  /\ found # <<>>
               /\ <<found[1].key>> # task[r].header
               /\ ~found[1].settings.allow_friend_requests

-----------------------------------------------------------------------------
(* Settings *)

\* C10: the stored settings of a user change only in the save of that user's
\* own PATCH /user/settings, and then to the settings as that request read
\* them with its edit applied.
C10_SettingsOnlyByOwner ==
    [][\A k \in Keys :
        user_collection'[k].settings # user_collection[k].settings
        => \E r \in Tasks :
            /\ task[r].pc = "patch_save"
            /\ task[r].user[1].key = k
            /\ Completes(r)]_vars

-----------------------------------------------------------------------------
(* models::user: public_information *)

DisclosureLevels == {"Private", "FriendsOnly", "Public"}

\* DisclosureLevel::is_visible
is_visible(level, is_friend) ==
    CASE level = "Private" -> FALSE
      [] level = "FriendsOnly" -> is_friend
      [] level = "Public" -> TRUE

\* The civil date <<year, month, day>> of a day counted from 1970-01-01.
civil_from_days(days) ==
    LET z == days + 719468
        era == z \div 146097
        doe == z - era * 146097
        yoe == (doe - doe \div 1460 + doe \div 36524 - doe \div 146096) \div 365
        doy == doe - (365 * yoe + yoe \div 4 - yoe \div 100)
        mp == (5 * doy + 2) \div 153
        day == doy - (153 * mp + 2) \div 5 + 1
        month == IF mp < 10 THEN mp + 3 ELSE mp - 9
        year == yoe + era * 400 + (IF month <= 2 THEN 1 ELSE 0)
    IN  <<year, month, day>>

\* nanos_to_date: the UTC date of a nanosecond stamp, as the fields of
\* "YYYY-MM-DD".
nanos_to_date(nanos) ==
    civil_from_days((((nanos \div 1000) \div 1000) \div 1000) \div 86400)

\* public_information with both dates gated by show_join_date.
public_information_OneSetting(u, is_friend) ==
    LET joined_date == IF is_visible(u.settings.show_join_date, is_friend)
                       THEN <<nanos_to_date(u.created_stamp)>> ELSE <<>>
        last_online_date == IF is_visible(u.settings.show_join_date, is_friend)
                            THEN <<nanos_to_date(u.last_access_stamp)>> ELSE <<>>
    IN  [name |-> u.name, joined_date |-> joined_date,
         last_online_date |-> last_online_date]

\* User::public_information
public_information(u, is_friend) ==
    LET joined_date == IF is_visible(u.settings.show_join_date, is_friend)
                       THEN <<nanos_to_date(u.created_stamp)>> ELSE <<>>
        last_online_date == IF is_visible(u.settings.show_online_date, is_friend)
                            THEN <<nanos_to_date(u.last_access_stamp)>> ELSE <<>>
    IN  [name |-> u.name, joined_date |-> joined_date,
         last_online_date |-> last_online_date]

\* The access stamps a stored user may carry: never written, written by the
\* extractor (microseconds), written by use_endpoint (nanoseconds).
AccessStamps == {0, timestamp_now_micro(MaxClock), timestamp_now_nanos(MaxClock)}

\* The users public_information is called on: any user of the service with
\* any disclosure settings and any access stamp.
DisclosedUsers ==
    {[key |-> k, name |-> NameOf(k),
      created_stamp |-> timestamp_now_nanos(CreatedMicros),
      last_access_stamp |-> stamp,
      settings |-> [show_join_date |-> j, show_online_date |-> o]] :
        k \in Keys, stamp \in AccessStamps,
        j \in DisclosureLevels, o \in DisclosureLevels}

InitDisclosure ==
    /\ StoreInit
    /\ \E u \in DisclosedUsers, is_friend \in BOOLEAN :
            call = [fn |-> "public_information", u |-> u,
                    is_friend |-> is_friend, result |-> <<>>]

PublicInformation ==
    /\ call.fn = "public_information"
    /\ call.result = <<>>
    /\ call' = [call EXCEPT !.result = <<public_information(call.u, call.is_friend)>>]
    /\ UNCHANGED <<user_collection, friendship_collection, clock, task, started>>

SpecDisclosure == InitDisclosure /\ [][PublicInformation]_vars

\* C13: joined_date is present exactly when show_join_date is Public, or
\* FriendsOnly with a friend viewing, and last_online_date likewise by
\* show_online_date; each date is gated by its own setting only, and Private
\* discloses to nobody. A date that is present is the date of its stamp.
C13_DisclosureGating ==
    (call.fn = "public_information" /\ call.result # <<>>) =>
        LET out == call.result[1]
            settings == call.u.settings
            Disclosed(level) ==
                \/ level = "Public"
                \/ level = "FriendsOnly" /\ call.is_friend
        IN  /\ out.joined_date # <<>> <=> Disclosed(settings.show_join_date)
            /\ out.last_online_date # <<>> <=> Disclosed(settings.show_online_date)
            /\ settings.show_join_date = "Private" => out.joined_date = <<>>
            /\ settings.show_online_date = "Private" => out.last_online_date = <<>>
            /\ out.joined_date \in {<<>>, <<nanos_to_date(call.u.created_stamp)>>}
            /\ out.last_online_date
                    \in {<<>>, <<nanos_to_date(call.u.last_access_stamp)>>}

\* The disclosure matrix: join date for friends only, online date public, a
\* stranger viewing; the join date is withheld and the online date given.
C13_Witness ==
    /\ call.fn = "public_information"
    /\ call.result # <<>>
    /\ call.u.settings = [show_join_date |-> "FriendsOnly",
                          show_online_date |-> "Public"]
    /\ ~call.is_friend
    /\ call.result[1].joined_date = <<>>
    /\ call.result[1].last_online_date = <<<<1970, 1, 1>>>>

-----------------------------------------------------------------------------
(* models::user: get_public_users, as called by GET /users *)

\* page, page_size and skip are u32. A u32 is held as two 16-bit halves,
\* [hi, lo], its value being hi * 2^16 + lo.
U32Bits == 32

HalfWord == 2 ^ (U32Bits \div 2)

\* The u32 of a number below 2^31.
ToU32(n) == [hi |-> n \div HalfWord, lo |-> n % HalfWord]

\* x * n for a u32 x and a number n below 2^15, in full: the product is
\* carry * 2^32 + hi * 2^16 + lo.
Product(x, n) ==
    LET low == x.lo * n
        high == x.hi * n + low \div HalfWord
    IN  [carry |-> high \div HalfWord, hi |-> high % HalfWord,
         lo |-> low % HalfWord]

\* page - 1 in u32: [value, overflow]; 0 - 1 wraps to 2^32 - 1.
SubOne(page) ==
    IF page = 0
    THEN [value |-> [hi |-> HalfWord - 1, lo |-> HalfWord - 1], overflow |-> TRUE]
    ELSE [value |-> ToU32(page - 1), overflow |-> FALSE]

\* (page - 1) * page_size in u32: the wrapped value, and whether the
\* subtraction or the multiplication overflowed.
Skip(page, page_size) ==
    LET minus_one == SubOne(page)
        product == Product(minus_one.value, page_size)
    IN  [value |-> [hi |-> product.hi, lo |-> product.lo],
         overflow |-> minus_one.overflow \/ product.carry > 0]

Min(a, b) == IF a < b THEN a ELSE b

\* find(filter) with FindOptions skip and limit, on the documents in their
\* stored order; a limit of 0 is no limit.
FindPublic(coll, skip, limit) ==
    LET matching == SelectSeq(coll, LAMBDA u : u.settings.show_profile = "Public")
        last == IF limit = 0 THEN Len(matching)
                ELSE Min(Len(matching), skip.lo + limit)
    IN  IF skip.hi > 0 \/ skip.lo >= Len(matching) THEN <<>>
        ELSE SubSeq(matching, skip.lo + 1, last)

\* count_documents(filter)
CountPublic(coll) ==
    Len(SelectSeq(coll, LAMBDA u : u.settings.show_profile = "Public"))

\* The build profile: u32 overflow panics with overflow checks and wraps
\* without.
Builds == {"overflow-checks", "wrapping"}

\* The collections a listing is taken from: up to MaxUsers documents in
\* stored order, each with any show_profile level.
RECURSIVE ListedCollections(_)
ListedCollections(n) ==
    IF n = 0 THEN {<<>>}
    ELSE LET shorter == ListedCollections(n - 1)
         IN  shorter \cup
             {Append(c, [name |-> <<96 + n>>,
                         settings |-> [show_profile |-> level]]) :
                c \in {x \in shorter : Len(x) = n - 1},
                level \in DisclosureLevels}

\* The query strings of GET /users: each parameter absent, zero, small, or
\* large; page = 2^26 + 1 with page_size = 64 and page = 42949674 with
\* page_size = 100 are the first pages whose offset does not fit 32 bits.
ListingQueries ==
    [page : {<<>>, <<0>>, <<1>>, <<2>>, <<2 ^ 26>>, <<2 ^ 26 + 1>>,
             <<42949673>>, <<42949674>>},
     page_size : {<<>>, <<0>>, <<1>>, <<2>>, <<64>>, <<9999>>}]

\* The outcome of get_public_users: a panic, Err, or Ok((users, pagination)).
ListingPanic ==
    [panicked |-> TRUE, failed |-> FALSE, users |-> <<>>, pagination |-> <<>>]

ListingErr ==
    [panicked |-> FALSE, failed |-> TRUE, users |-> <<>>, pagination |-> <<>>]

ListingOk(users, total, page, page_size) ==
    [panicked |-> FALSE, failed |-> FALSE, users |-> users,
     pagination |-> <<[total |-> total, page |-> page, page_size |-> page_size,
                       returned |-> Len(users)]>>]

\* `written`: a save of another request has landed since the call began.
InitListing ==
    /\ StoreInit
    /\ \E coll \in ListedCollections(MaxUsers), query \in ListingQueries,
          build \in Builds :
            call = [fn |-> "get_public_users", collection |-> coll,
                    query |-> query, build |-> build, pc |-> "find",
                    page |-> 0, page_size |-> 0, skip |-> <<>>,
                    cursor |-> <<>>, users |-> <<>>, written |-> FALSE,
                    result |-> <<>>]

\* GET /users sanitizes the query, fills in the defaults and calls
\* get_public_users, which computes skip and awaits find: the cursor holds
\* the first batch, which is the whole page (page_size <= 100).
GetPublicUsersFind ==
    /\ call.fn = "get_public_users"
    /\ call.pc = "find"
    /\ LET query == sanitize(call.query)
           page == unwrap_or(query.page, 1)
           page_size == unwrap_or(query.page_size, 10)
           skip == Skip(page, page_size)
       IN  IF skip.overflow /\ call.build = "overflow-checks"
           THEN call' = [call EXCEPT !.pc = "done", !.page = page,
                                     !.page_size = page_size,
                                     !.result = <<ListingPanic>>]
           ELSE call' = [call EXCEPT !.pc = "try_next", !.page = page,
                                     !.page_size = page_size,
                                     !.skip = <<skip.value>>,
                                     !.cursor = FindPublic(call.collection,
                                                    skip.value, page_size)]
    /\ UNCHANGED <<user_collection, friendship_collection, clock, task, started>>

\* cursor.try_next(): the next document is pushed, or the loop ends.
GetPublicUsersTryNext ==
    /\ call.fn = "get_public_users"
    /\ call.pc = "try_next"
    /\ IF call.cursor = <<>>
       THEN call' = [call EXCEPT !.pc = "count"]
       ELSE call' = [call EXCEPT !.users = Append(@, Head(call.cursor)),
                                 !.cursor = Tail(@)]
    /\ UNCHANGED <<user_collection, friendship_collection, clock, task, started>>

\* count_documents, then Pagination::new and Ok.
GetPublicUsersCount ==
    /\ call.fn = "get_public_users"
    /\ call.pc = "count"
    /\ call' = [call EXCEPT !.pc = "done",
                 !.result = <<ListingOk(call.users, CountPublic(call.collection),
                                        call.page, call.page_size)>>]
    /\ UNCHANGED <<user_collection, friendship_collection, clock, task, started>>

\* find fails in the storage layer: Err. (In a build with overflow checks
\* an overflowing skip panics before find.)
GetPublicUsersFindError ==
    /\ call.fn = "get_public_users"
    /\ call.pc = "find"
    /\ LET query == sanitize(call.query)
           page == unwrap_or(query.page, 1)
           page_size == unwrap_or(query.page_size, 10)
           skip == Skip(page, page_size)
       IN  /\ ~(skip.overflow /\ call.build = "overflow-checks")
           /\ call' = [call EXCEPT !.pc = "done", !.page = page,
                                    !.page_size = page_size,
                                    !.skip = <<skip.value>>,
                                    !.result = <<ListingErr>>]
    /\ UNCHANGED <<user_collection, friendship_collection, clock, task, started>>

\* try_next or count_documents fails in the storage layer: Err.
GetPublicUsersError ==
    /\ call.fn = "get_public_users"
    /\ call.pc \in {"try_next", "count"}
    /\ call' = [call EXCEPT !.pc = "done", !.result = <<ListingErr>>]
    /\ UNCHANGED <<user_collection, friendship_collection, clock, task, started>>

\* User::save on the documents in stored order.
UserSaveListed(coll, u) ==
    IF \E i \in 1 .. Len(coll) : coll[i].name = u.name
    THEN [i \in 1 .. Len(coll) |-> IF coll[i].name = u.name THEN u ELSE coll[i]]
    ELSE Append(coll, u)

\* Another request saves a user while get_public_users is suspended: a
\* stored user with another show_profile, or one more user.
SaveMeanwhile ==
    /\ call.fn = "get_public_users"
    /\ call.pc \in {"try_next", "count"}
    /\ ~call.written
    /\ \E n \in 1 .. Min(Len(call.collection) + 1, MaxUsers),
          level \in DisclosureLevels :
            LET u == [name |-> <<96 + n>>, settings |-> [show_profile |-> level]]
            IN  /\ UserSaveListed(call.collection, u) # call.collection
                /\ call' = [call EXCEPT !.written = TRUE,
                        !.collection = UserSaveListed(call.collection, u)]
    /\ UNCHANGED <<user_collection, friendship_collection, clock, task, started>>

NextListing ==
    \/ GetPublicUsersFind
    \/ GetPublicUsersTryNext
    \/ GetPublicUsersCount
    \/ GetPublicUsersFindError
    \/ GetPublicUsersError
    \/ SaveMeanwhile

SpecListing == InitListing /\ [][NextListing]_vars

\* The page and page_size of the call as the spec defines them: page at
\* least 1 (default 1), page_size in 1 .. 100 (default 10).
ListedPage ==
    IF call.query.page = <<>> THEN 1
    ELSE IF call.query.page[1] < 1 THEN 1 ELSE call.query.page[1]

ListedPageSize ==
    IF call.query.page_size = <<>> THEN 10
    ELSE IF call.query.page_size[1] < 1 THEN 1
    ELSE IF call.query.page_size[1] > 100 THEN 100
    ELSE call.query.page_size[1]

\* The public users of the collection of the call.
PublicOf(coll) == {i \in 1 .. Len(coll) : coll[i].settings.show_profile = "Public"}

\* min(page_size, max(0, total - (page - 1) * page_size)), the product
\* taken in full.
ExpectedReturned(total, page, page_size) ==
    LET offset == Product(ToU32(page - 1), page_size)
    IN  IF offset.carry = 0 /\ offset.hi = 0 /\ offset.lo < total
        THEN Min(page_size, total - offset.lo)
        ELSE 0

\* C14: with no save landing during the call and no storage call failing,
\* get_public_users returns, and returns only users whose show_profile is
\* Public; total is the number of all such users; returned is the number of
\* users in the response and equals
\* min(page_size, max(0, total - (page - 1) * page_size)), at most page_size.
C14_PublicListing ==
    (/\ call.fn = "get_public_users"
     /\ call.result # <<>>
     /\ ~call.written
     /\ ~call.result[1].failed) =>
        LET out == call.result[1]
            total == Cardinality(PublicOf(call.collection))
        IN  /\ ~out.panicked
            /\ \A i \in 1 .. Len(out.users) :
                    out.users[i].settings.show_profile = "Public"
            /\ out.pagination[1].total = total
            /\ out.pagination[1].returned = Len(out.users)
            /\ out.pagination[1].returned
                    = ExpectedReturned(total, ListedPage, ListedPageSize)
            /\ out.pagination[1].returned <= ListedPageSize

\* C20: the skip offset get_public_users computes is the product
\* (page - 1) * page_size itself: the call does not panic and no carry is
\* lost beyond 32 bits.
C20_SkipIsProduct ==
    (call.fn = "get_public_users" /\ call.pc # "find") =>
        LET offset == Product(ToU32(ListedPage - 1), ListedPageSize)
        IN  /\ call.result # <<ListingPanic>>
            /\ offset.carry = 0
            /\ call.skip = <<[hi |-> offset.hi, lo |-> offset.lo]>>

-----------------------------------------------------------------------------
(* utils::sanitize: alphanumeric *)

MaxInputLen == 3    \* characters of an input of alphanumeric

\* The characters inputs are made of: a z A Z 0 9, the characters next to
\* those ranges (/ : @ [ ` {), space, -, and outside ASCII: e-acute, the
\* Arabic-Indic digit three, an emoji.
Chars == {97, 122, 65, 90, 48, 57, 47, 58, 64, 91, 96, 123, 32, 45,
          233, 1635, 128515}

\* The input and the expected output of the unit test `a`.
TestInput ==
    <<97, 98, 99, 100, 101, 102, 103, 104, 105, 103, 107, 108, 109, 110,
      111, 112, 113, 114, 115, 116, 117, 118, 119, 120, 121, 122, 32,
      128515, 32, 65, 66, 67, 68, 69, 70, 71, 72, 73, 71, 75, 76, 77, 78,
      79, 80, 81, 82, 83, 84, 85, 86, 87, 88, 89, 90, 32, 62, 45, 60, 32,
      48, 49, 50, 51, 52, 53, 54, 55, 56, 57>>

TestOutput ==
    <<97, 98, 99, 100, 101, 102, 103, 104, 105, 103, 107, 108, 109, 110,
      111, 112, 113, 114, 115, 116, 117, 118, 119, 120, 121, 122, 65, 66,
      67, 68, 69, 70, 71, 72, 73, 71, 75, 76, 77, 78, 79, 80, 81, 82, 83,
      84, 85, 86, 87, 88, 89, 90, 48, 49, 50, 51, 52, 53, 54, 55, 56, 57>>

RECURSIVE Strings(_)
Strings(n) ==
    IF n = 0 THEN {<<>>}
    ELSE LET shorter == Strings(n - 1)
         IN  shorter \cup {Append(x, c) : x \in {y \in shorter : Len(y) = n - 1},
                                          c \in Chars}

InitSanitize ==
    /\ StoreInit
    /\ \E input \in Strings(MaxInputLen) \cup {TestInput} :
            call = [fn |-> "alphanumeric", input |-> input, result |-> <<>>,
                    again |-> <<>>]

\* alphanumeric(input)
Alphanumeric ==
    /\ call.fn = "alphanumeric"
    /\ call.result = <<>>
    /\ call' = [call EXCEPT !.result = <<alphanumeric(call.input)>>]
    /\ UNCHANGED <<user_collection, friendship_collection, clock, task, started>>

\* alphanumeric applied to its own result
AlphanumericAgain ==
    /\ call.fn = "alphanumeric"
    /\ call.result # <<>>
    /\ call.again = <<>>
    /\ call' = [call EXCEPT !.again = <<alphanumeric(call.result[1])>>]
    /\ UNCHANGED <<user_collection, friendship_collection, clock, task, started>>

NextSanitize == Alphanumeric \/ AlphanumericAgain

SpecSanitize == InitSanitize /\ [][NextSanitize]_vars

\* ASCII letters and digits, by their code points.
LettersAndDigits == (48 .. 57) \cup (65 .. 90) \cup (97 .. 122)

\* s is the subsequence of input at the positions `kept`, in order.
IsSubsequenceAt(s, input, kept) ==
    /\ Len(s) = Cardinality(kept)
    /\ \A i \in kept :
            s[Cardinality({j \in kept : j <= i})] = input[i]

\* C15: the result of alphanumeric is the subsequence of the input made of
\* its ASCII letters and digits, in their order; applying alphanumeric to
\* the result gives the result again; the unit test's input gives its output.
C15_AlphanumericFilter ==
    /\ (call.fn = "alphanumeric" /\ call.result # <<>>) =>
            /\ IsSubsequenceAt(call.result[1], call.input,
                    {i \in 1 .. Len(call.input) :
                        call.input[i] \in LettersAndDigits})
            /\ call.input = TestInput => call.result[1] = TestOutput
    /\ (call.fn = "alphanumeric" /\ call.again # <<>>) =>
            call.again = call.result

\* "a", an emoji, "0" gives "a0", twice.
C15_Witness ==
    /\ call.fn = "alphanumeric"
    /\ call.input = <<97, 128515, 48>>
    /\ call.result = <<<<97, 48>>>>
    /\ call.again = <<<<97, 48>>>>

-----------------------------------------------------------------------------
(* Endpoint counters and access stamps *)

\* C11 (I4): no step lowers a stored endpoint_usage counter of any user, or
\* drops it from the map.
C11_UsageNeverDecreases ==
    [][\A k \in Keys :
          \A e \in DOMAIN user_collection[k].endpoint_usage :
              /\ e \in DOMAIN user_collection'[k].endpoint_usage
              /\ user_collection'[k].endpoint_usage[e]
                    >= user_collection[k].endpoint_usage[e]]_vars

\* C12 (I5): a user whose access stamp was written (0 is the stamp of a user
\* who never presented the key) has last_access_stamp >= created_stamp.
C12_AccessAfterCreation ==
    \A k \in Keys :
        user_collection[k].last_access_stamp # 0
            => user_collection[k].last_access_stamp
                    >= user_collection[k].created_stamp

-----------------------------------------------------------------------------
(* The friend-request protocol, continued *)

\* C16: the first failing check of send-request, in the order target not
\* found, target is the caller, target allows no requests, already friends,
\* already pending, decides the response, whatever the later checks would
\* say: a caller who is a friend and has a pending entry in the loaded target
\* gets the already-friends response; a target who allows no requests gives
\* the 404 whatever the friendship and pending state. A call that passes all
\* five goes on to insert and save.
C16_SendCheckOrder ==
    [][\A r \in Tasks :
        /\ (Leaves(r, "send_find")
             /\ ~Returns(r, 500, "An error occurred while fetching user")) =>
                LET caller == task[r].user[1].key
                    found == find_user_by_name(user_collection, task[r].name)
                IN  IF found = <<>> THEN Returns(r, 404, SendNotFound)
                    ELSE IF found[1].key = caller THEN
                        Returns(r, 400, "Can't send a friend request to yourself")
                    ELSE IF ~found[1].settings.allow_friend_requests THEN
                        Returns(r, 404, SendNotFound)
                    ELSE task'[r].pc = "send_are_friends"
        /\ (Leaves(r, "send_are_friends")
             /\ ~Returns(r, 500, "An error occurred while fetching friendship")) =>
                LET caller == task[r].user[1].key
                    target == task[r].target[1]
                IN  IF are_friends(friendship_collection, <<caller, target.key>>)
                    THEN Returns(r, 400, "You are already friends with the user")
                    ELSE IF caller \in DOMAIN target.friend_requests THEN
                        Returns(r, 400, "Already sent a request to the user")
                    ELSE task'[r].pc = "send_save"]_vars

\* User a's send to b is answered 404 while a's earlier request is pending
\* in b.friend_requests and b allows no requests.
C16_Witness ==
    \E r \in Tasks :
        /\ Returned(r, "post_friend_request", 404, SendNotFound)
        /\ task[r].header = <<KeyA>>
        /\ to_lowercase(task[r].name) = NameB
        /\ Pending(KeyA, KeyB)
        /\ ~user_collection[KeyB].settings.allow_friend_requests

\* The pairs of users that are friends.
Friends ==
    {friendship_collection[i].members : i \in 1 .. Len(friendship_collection)}

\* C17: the friendship collection is written only by the last step of an
\* accept call, which stores the pair of the caller and the named user; an
\* accept call gets past its lookup only if the named user's key is in the
\* caller's friend_requests as loaded, and reaches its last step only from
\* there; no step of a send-request call writes a Friendship, and a send
\* whose target has a request pending to the caller stores a second entry,
\* in the other direction, and leaves both pending.
C17_FriendshipOnlyByAccept ==
    [][/\ friendship_collection' # friendship_collection =>
            \E r \in Tasks :
                /\ task[r].route = "post_friend_request_accept"
                /\ task[r].pc = "accept_save_friendship"
                /\ Returns(r, 200, "Friend request accepted")
                /\ task[r].user[1].key # task[r].target[1].key
                /\ Friends' = Friends \cup
                        {NormaliseKeys(<<task[r].user[1].key,
                                         task[r].target[1].key>>)}
       /\ \A r \in Tasks :
            /\ (task'[r].pc = "accept_save_user" /\ task[r].pc # "accept_save_user")
                    => /\ task[r].pc = "accept_find"
                       /\ task'[r].target[1].key
                            \in DOMAIN task[r].user[1].friend_requests
            /\ (task'[r].pc = "accept_are_friends"
                    /\ task[r].pc # "accept_are_friends")
                    => /\ task[r].pc = "accept_save_user"
                       /\ task'[r].target = task[r].target
            /\ (task'[r].pc = "accept_save_friendship"
                    /\ task[r].pc # "accept_save_friendship")
                    => /\ task[r].pc = "accept_are_friends"
                       /\ task'[r].target = task[r].target
                       /\ task'[r].user = task[r].user
            /\ (task[r].route = "post_friend_request" /\ task'[r] # task[r]
                    /\ InFlight(task[r]))
                    => friendship_collection' = friendship_collection
            /\ (Returns(r, 200, "Friend request sent")
                    /\ Pending(task[r].target[1].key, task[r].user[1].key))
                    => LET caller == task[r].user[1].key
                           target == task[r].target[1].key
                       IN  /\ friendship_collection' = friendship_collection
                           /\ target \in DOMAIN user_collection'[caller].friend_requests
                           /\ caller \in DOMAIN user_collection'[target].friend_requests
      ]_vars

\* User a sent to b, b sent to a (a second entry, in a.friend_requests, and
\* no friendship), then b accepted a: the accept made them friends.
C17_Witness ==
    /\ Friends = {NormaliseKeys(<<KeyA, KeyB>>)}
    /\ Pending(KeyB, KeyA)
    /\ \E r \in Tasks :
            /\ Returned(r, "post_friend_request_accept", 200,
                        "Friend request accepted")
            /\ task[r].header = <<KeyB>>

\* C18: an entry of a stored friend_requests map, put there by a send that
\* returned 200, is removed only by the owner's accept of that sender: by
\* the step of an accept call of b, naming a, that saves b.
C18_SentRequestNotLost ==
    [][\A a \in Keys, b \in Keys :
        (Pending(a, b) /\ ~Pending(a, b)') =>
            \E r \in Tasks :
                /\ task[r].route = "post_friend_request_accept"
                /\ task[r].pc = "accept_save_user"
                /\ task'[r].pc = "accept_are_friends"
                /\ task[r].user[1].key = b
                /\ task[r].target[1].key = a]_vars

\* C19: an accept call that has removed the named user's entry from the
\* caller's stored friend_requests returns, whatever its response, with the
\* two of them friends.
C19_ConsumedIntoFriendship ==
    [][\A r \in Tasks :
        (Completes(r) /\ task[r].pc \in {"accept_are_friends",
                                          "accept_save_friendship"}) =>
            are_friends(friendship_collection',
                        <<task[r].user[1].key, task[r].target[1].key>>)]_vars

====
